---- MODULE Spec2Model ----
(***************************************************************************)
(* Equirectangular-to-cubemap converter (src/src/main.rs).                 *)
(*                                                                         *)
(* f32 arithmetic is modelled in fixed point with ONE units per 1.0.  The  *)
(* sign of zero is kept where the code feeds a value to atan2, because     *)
(* atan2(+0, -1) = pi and atan2(-0, -1) = -pi.                             *)
(***************************************************************************)
EXTENDS Integers, Sequences, FiniteSets, TLC

VARIABLES
    threads,      \* init_rayon: the number of worker threads of the pool
    rgb_img,      \* the decoded source raster [width, height, pat]
    sizes,        \* main: the list of face sizes
    idx,          \* main: index in sizes of the size being processed
    mainPc,       \* main: "loop" | "faces" | "done" | "failed" | "panicked"
    size,         \* convert_jpg_to_cubemap: the size argument
    dirs,         \* file system: sizes whose output directory exists
    files,        \* file system: <<size, face>> -> "partial" | "complete"
    pc,           \* per face task: position in the closure of line 101
    chunk_len,    \* argument handed to par_chunks_mut
    chunk_st,     \* per face, per chunk task: "run" | "done" | "panic"
    face_buffer,  \* per face: cell -> pixel (Blank until written)
    writes,       \* per face: cell -> number of writes so far
    err,          \* per face task: the error it returned (NoErr if none)
    ret,          \* results of the convert_jpg_to_cubemap calls so far
    probe         \* one application of cube_to_spherical and the sampler

vars == <<threads, rgb_img, sizes, idx, mainPc, size, dirs, files, pc, chunk_len, chunk_st,
          face_buffer, writes, err, ret, probe>>

runVars == <<threads, rgb_img, sizes, idx, mainPc, size, dirs, files, pc, chunk_len, chunk_st,
             face_buffer, writes, err, ret>>

----------------------------------------------------------------------------
(* Bounds of the model *)

\* SpecProj: face sizes MinProbeSize..MaxProbeSize, source rasters up to
\* MaxDim x MaxDim
MaxProbeSize == 5
MaxDim == 4
\* Spec: main's first size is in 0..MaxBase, the pool has 1..MaxThreads workers
MaxBase == 1
MaxThreads == 2
\* SpecFace: every chunk length is tried for sizes 1..MaxTuneSize; the chunk
\* length of the code for sizes ChunkRows..ChunkRows + MaxOver
MaxTuneSize == 2
MaxOver == 1

----------------------------------------------------------------------------
(* f32 in fixed point *)

ONE == 16384

PI_FX == 51472

Faces == {"right", "left", "up", "down", "front", "back"}

Min(a, b) == IF a < b THEN a ELSE b

Abs(a) == IF a < 0 THEN -a ELSE a

\* a / b rounded to nearest (b > 0)
RoundDiv(a, b) == (2 * a + b) \div (2 * b)

RECURSIVE ISqrtIn(_, _, _)
ISqrtIn(v, lo, hi) ==
    IF lo >= hi THEN lo
    ELSE LET m == (lo + hi + 1) \div 2
         IN IF m * m <= v THEN ISqrtIn(v, m, hi) ELSE ISqrtIn(v, lo, m - 1)

\* f32::sqrt of v / ONE^2, in units of 1 / ONE
Sqrt(v) ==
    LET r == ISqrtIn(v, 0, 2 * ONE)
    IN IF v - r * r > r THEN r + 1 ELSE r

\* a float with the sign of zero kept
F32(i) == [neg |-> i < 0, mag |-> Abs(i)]

Neg(f) == [neg |-> ~f.neg, mag |-> f.mag]

\* atan on [0, 1] by the odd polynomial libm evaluates on the reduced argument
AtanUnit(t) ==
    IF t = ONE THEN RoundDiv(PI_FX, 4)
    ELSE LET t2 == RoundDiv(t * t, ONE)
             a4 == 341
             a3 == (-1395) + RoundDiv(a4 * t2, ONE)
             a2 == 2951 + RoundDiv(a3 * t2, ONE)
             a1 == (-5412) + RoundDiv(a2 * t2, ONE)
             a0 == 16382 + RoundDiv(a1 * t2, ONE)
         IN RoundDiv(a0 * t, ONE)

\* f32::atan2(y, x), IEEE 754 cases for zeros included; the result is in
\* [-PI_FX, PI_FX]
Atan2(y, x) ==
    LET a == IF y.mag = 0 THEN (IF x.neg THEN PI_FX ELSE 0)
             ELSE IF x.mag = 0 THEN RoundDiv(PI_FX, 2)
             ELSE IF y.mag <= x.mag
                  THEN LET b == AtanUnit(RoundDiv(y.mag * ONE, x.mag))
                       IN IF x.neg THEN PI_FX - b ELSE b
                  ELSE LET b == AtanUnit(RoundDiv(x.mag * ONE, y.mag))
                       IN IF x.neg THEN RoundDiv(PI_FX, 2) + b
                          ELSE RoundDiv(PI_FX, 2) - b
    IN IF y.neg THEN -a ELSE a

\* f32::acos(c) for c in [-1, 1]; the result is in [0, PI_FX]
Acos(c) == Atan2(F32(Sqrt(ONE * ONE - c * c)), F32(c))

\* (2.0 * i as f32 / size as f32) - 1.0
Ndc(i, s) == RoundDiv(2 * i * ONE, s) - ONE

\* phi / (2 pi) + 0.5
UOf(phi) == RoundDiv(phi * ONE, 2 * PI_FX) + ONE \div 2

\* theta / pi
VOf(theta) == RoundDiv(theta * ONE, PI_FX)

cube_to_spherical(xi, yi, s, face) ==
    LET x == Ndc(xi, s)
        y == Ndc(yi, s)
        r == Sqrt(x * x + y * y + ONE * ONE)
        one == F32(ONE)
    IN CASE face = "right" ->
              <<UOf(Atan2(F32(y), one)), VOf(Acos(RoundDiv(x * ONE, r)))>>
         [] face = "left" ->
              <<UOf(Atan2(F32(y), Neg(one))), VOf(Acos(RoundDiv((-x) * ONE, r)))>>
         [] face = "up" ->
              <<UOf(Atan2(Neg(F32(x)), F32(y))), VOf(Acos(RoundDiv(ONE * ONE, r)))>>
         [] face = "down" ->
              <<UOf(Atan2(F32(x), Neg(F32(y)))), VOf(Acos(RoundDiv((-ONE) * ONE, r)))>>
         [] face = "front" ->
              <<UOf(Atan2(F32(x), one)), VOf(Acos(RoundDiv(y * ONE, r)))>>
         [] face = "back" ->
              <<UOf(Atan2(Neg(F32(x)), Neg(one))), VOf(Acos(RoundDiv((-y) * ONE, r)))>>
         [] OTHER -> <<0, 0>>

----------------------------------------------------------------------------
(* The source raster and the sampler *)

\* RgbImage::get_pixel of a source described by its pattern
GetPixel(img, x, y) ==
    CASE img.pat = "red" -> <<255, 0, 0>>
      [] img.pat = "ramp" -> <<(x * 255) \div img.width, (y * 255) \div img.height, 128>>
      [] OTHER -> IF x = img.width - 1 THEN <<255, 255, 255>> ELSE <<0, 16 * y, 0>>

\* the float to u8 cast saturates
AsU8(c) == IF c < 0 THEN 0 ELSE IF c > 255 THEN 255 ELSE c

\* fx and fy are in units of 1 / ONE; the two inner sums keep 8 fraction bits
bilerp(c00, c10, c01, c11, fx, fy) ==
    LET c0 == (c00 * (ONE - fx) + c10 * fx) \div (ONE \div 256)
        c1 == (c01 * (ONE - fx) + c11 * fx) \div (ONE \div 256)
    IN AsU8((c0 * (ONE - fy) + c1 * fy + 128 * ONE) \div (256 * ONE))

\* (u * width).rem_euclid(width), in units of 1 / ONE
RemEuclid(u, w) == (u * w) % (w * ONE)

\* the neighbour clamped to the last column instead of wrapped
NeighbourClamped(c0, w) == Min(c0 + 1, w - 1)

\* the wrapped neighbour of a floor coordinate
Neighbour(c0, w) == (c0 + 1) % w

\* the four lookup coordinates and the two fractions for (u, v)
SampleAt(img, uv) ==
    LET x == RemEuclid(uv[1], img.width)
        y == RemEuclid(uv[2], img.height)
        x0 == x \div ONE
        y0 == y \div ONE
    IN [x0 |-> x0, y0 |-> y0,
        x1 |-> Neighbour(x0, img.width), y1 |-> Neighbour(y0, img.height),
        fx |-> x % ONE, fy |-> y % ONE]

\* the colour written to the output pixel for (u, v)
Sample(img, uv) ==
    LET at == SampleAt(img, uv)
        p00 == GetPixel(img, at.x0, at.y0)
        p10 == GetPixel(img, at.x1, at.y0)
        p01 == GetPixel(img, at.x0, at.y1)
        p11 == GetPixel(img, at.x1, at.y1)
    IN [c \in 1..3 |-> bilerp(p00[c], p10[c], p01[c], p11[c], at.fx, at.fy)]

\* the body of the per-pixel loop
RenderPixel(img, x, y, s, face) == Sample(img, cube_to_spherical(x, y, s, face))

----------------------------------------------------------------------------
(* Values shared by the specifications *)

Blank == <<0, 0, 0>>
NoProbe == [stage |-> "off"]

IoError == [kind |-> "io", names |-> {}]
ImageError == [kind |-> "image", names |-> {}]
NoErr == [kind |-> "none", names |-> {}]

----------------------------------------------------------------------------
(* convert_jpg_to_cubemap: one face task *)

ChunkRows == 16

NumSizes == 3

\* (size * 16) as usize; the product stays far below 2^32 for modelled sizes
chunk_size(s) == s * ChunkRows

\* the chunk length handed to par_chunks_mut
ChunkLen(s) == Min(chunk_size(s), s * s)

\* enumerate_pixels_mut: cell k (from 1) of the row-major buffer is pixel (x, y)
PixelXY(k, s) == <<(k - 1) % s, (k - 1) \div s>>

\* the number of full chunks only, as par_chunks_exact_mut gives
NumChunksExact(n, len) == n \div len

\* par_chunks_mut: the number of chunks of n cells, the last one may be short
NumChunks(n, len) == (n + len - 1) \div len

\* every chunk taken from the start of the buffer
ChunkCellsFromStart(c, n, len) == 1..Min(len, n - (c - 1) * len)

\* par_chunks_mut: the cells of chunk c
ChunkCells(c, n, len) == ((c - 1) * len + 1)..Min(c * len, n)

\* failures dropped
FailuresIgnored == {}

\* the face tasks a failure came back from
FailedFaces == {f \in Faces : pc[f] = "err"}

\* the face tasks that hold a worker
InFlight == {f \in Faces : pc[f] \in {"render", "encode"}}

\* the sources and the face sizes the specifications draw from
Sources == {[width |-> 4, height |-> 2, pat |-> p] : p \in {"red", "ramp", "edge"}}

FaceSizes == (1..MaxTuneSize) \cup {ChunkRows + d : d \in 0..MaxOver}

BatchSizes == {b * (2 ^ i) : b \in 0..MaxBase, i \in 0..(NumSizes - 1)}

\* the loop body applied to every cell of a face
RenderFace(img, s, face) ==
    [k \in 1..(s * s) |->
        RenderPixel(img, PixelXY(k, s)[1], PixelXY(k, s)[2], s, face)]

\* RenderFace tabulated once for the sources and sizes above
Rendered ==
    [img \in Sources, s \in (FaceSizes \cup BatchSizes) \ {0}, face \in Faces |->
        RenderFace(img, s, face)]

\* the value the loop body writes to cell k
CellValue(img, k, s, face) == Rendered[img, s, face][k]

ZeroSource == rgb_img.width = 0 \/ rgb_img.height = 0

\* no join at all
ChunksNotAwaited(f) == TRUE

\* the inner join: for_each returns once no chunk task is left running
ChunksJoined(f) == \A c \in DOMAIN chunk_st[f] : chunk_st[f][c] # "run"

FileKey(s, f) == <<s, f>>

SetFile(k, v) == [x \in DOMAIN files \cup {k} |-> IF x = k THEN v ELSE files[x]]

\* lines 101-109: a free worker takes the next face unless try_for_each has seen
\* a failure; it allocates the face buffer, splits it and spawns the chunk
\* tasks; par_chunks_mut panics on a chunk length of 0
StartFace(f) ==
    /\ mainPc = "faces"
    /\ pc[f] = "wait"
    /\ FailedFaces = {}
    /\ Cardinality(InFlight) < threads
    /\ LET n == size * size
           len == ChunkLen(size)
       IN /\ chunk_len' = len
          /\ face_buffer' = [face_buffer EXCEPT ![f] = [k \in 1..n |-> Blank]]
          /\ writes' = [writes EXCEPT ![f] = [k \in 1..n |-> 0]]
          /\ IF len = 0
             THEN /\ pc' = [pc EXCEPT ![f] = "panic"]
                  /\ UNCHANGED chunk_st
             ELSE /\ pc' = [pc EXCEPT ![f] = "render"]
                  /\ chunk_st' = [chunk_st EXCEPT
                                    ![f] = [c \in 1..NumChunks(n, len) |-> "run"]]
    /\ UNCHANGED <<threads, rgb_img, sizes, idx, mainPc, size, dirs, files, err, ret, probe>>

\* lines 110-136: one chunk task writes every pixel of its chunk
RunChunk(f, c) ==
    /\ mainPc = "faces"
    /\ pc[f] = "render"
    /\ c \in DOMAIN chunk_st[f]
    /\ chunk_st[f][c] = "run"
    /\ ~ZeroSource
    /\ LET n == size * size
           mine == ChunkCells(c, n, chunk_len)
       IN /\ face_buffer' = [face_buffer EXCEPT ![f] =
                [k \in 1..n |->
                    IF k \in mine
                    THEN CellValue(rgb_img, k, size, f)
                    ELSE face_buffer[f][k]]]
          /\ writes' = [writes EXCEPT ![f] =
                [k \in 1..n |-> IF k \in mine THEN writes[f][k] + 1 ELSE writes[f][k]]]
    /\ chunk_st' = [chunk_st EXCEPT ![f][c] = "done"]
    /\ UNCHANGED <<threads, rgb_img, sizes, idx, mainPc, size, dirs, files, pc, chunk_len,
                   err, ret, probe>>

\* line 119-120: the remainder by a zero width or height panics at the first
\* pixel of the chunk
ChunkPanic(f, c) ==
    /\ mainPc = "faces"
    /\ pc[f] = "render"
    /\ c \in DOMAIN chunk_st[f]
    /\ chunk_st[f][c] = "run"
    /\ ZeroSource
    /\ chunk_st' = [chunk_st EXCEPT ![f][c] = "panic"]
    /\ UNCHANGED <<threads, rgb_img, sizes, idx, mainPc, size, dirs, files, pc, chunk_len,
                   face_buffer, writes, err, ret, probe>>

\* line 136: the inner join resumes the panic of a chunk task
FacePanic(f) ==
    /\ mainPc = "faces"
    /\ pc[f] = "render"
    /\ ChunksJoined(f)
    /\ \E c \in DOMAIN chunk_st[f] : chunk_st[f][c] = "panic"
    /\ pc' = [pc EXCEPT ![f] = "panic"]
    /\ UNCHANGED <<threads, rgb_img, sizes, idx, mainPc, size, dirs, files, chunk_len,
                   chunk_st, face_buffer, writes, err, ret, probe>>

\* lines 136-140: the inner join returns, then File::create; on its failure
\* the task returns the io::Error and its buffer is dropped
CreateFile(f) ==
    /\ mainPc = "faces"
    /\ pc[f] = "render"
    /\ ChunksJoined(f)
    /\ \A c \in DOMAIN chunk_st[f] : chunk_st[f][c] # "panic"
    /\ \E created \in BOOLEAN :
         IF created
         THEN /\ files' = SetFile(FileKey(size, f), "partial")
              /\ pc' = [pc EXCEPT ![f] = "encode"]
              /\ UNCHANGED <<err, face_buffer, writes>>
         ELSE /\ pc' = [pc EXCEPT ![f] = "err"]
              /\ err' = [err EXCEPT ![f] = IoError]
              /\ face_buffer' = [face_buffer EXCEPT ![f] = <<>>]
              /\ writes' = [writes EXCEPT ![f] = <<>>]
              /\ UNCHANGED files
    /\ UNCHANGED <<threads, rgb_img, sizes, idx, mainPc, size, dirs, chunk_len, chunk_st,
                   ret, probe>>

\* lines 141-151: encode the buffer into the file; the task ends with Ok or
\* with the ImageError, and its buffer is dropped
Encode(f) ==
    /\ mainPc = "faces"
    /\ pc[f] = "encode"
    /\ \E encoded \in BOOLEAN :
         IF encoded
         THEN /\ files' = SetFile(FileKey(size, f), "complete")
              /\ pc' = [pc EXCEPT ![f] = "ok"]
              /\ UNCHANGED err
         ELSE /\ pc' = [pc EXCEPT ![f] = "err"]
              /\ err' = [err EXCEPT ![f] = ImageError]
              /\ UNCHANGED files
    /\ face_buffer' = [face_buffer EXCEPT ![f] = <<>>]
    /\ writes' = [writes EXCEPT ![f] = <<>>]
    /\ UNCHANGED <<threads, rgb_img, sizes, idx, mainPc, size, dirs, chunk_len, chunk_st,
                   ret, probe>>

----------------------------------------------------------------------------
(* main and the outer join of convert_jpg_to_cubemap *)

\* a return that does not wait for the faces not yet taken
JoinedTooEarly == InFlight = {}

\* the outer join: try_for_each returns once no face task runs and every face
\* has run, or a failure keeps the remaining ones from being taken
AllFacesJoined ==
    /\ InFlight = {}
    /\ \A f \in Faces : pc[f] = "wait" => FailedFaces # {}

OkRet == [kind |-> "Ok", err |-> NoErr]
ErrRet(e) == [kind |-> "Err", err |-> e]

\* lines 27-29 and 87-100: main takes the next size and calls
\* convert_jpg_to_cubemap, which creates the output directory and hands the six
\* faces to the pool; a create_dir_all failure returns at once
MainCall ==
    /\ mainPc = "loop"
    /\ idx < Len(sizes)
    /\ idx' = idx + 1
    /\ size' = sizes[idx + 1]
    /\ \E made \in BOOLEAN :
         IF made
         THEN /\ dirs' = dirs \cup {sizes[idx + 1]}
              /\ mainPc' = "faces"
              /\ ret' = ret
         ELSE /\ dirs' = dirs
              /\ mainPc' = "failed"
              /\ ret' = Append(ret, ErrRet(IoError))
    /\ pc' = [f \in Faces |-> "wait"]
    /\ chunk_len' = 0
    /\ chunk_st' = [f \in Faces |-> <<>>]
    /\ face_buffer' = [f \in Faces |-> <<>>]
    /\ writes' = [f \in Faces |-> <<>>]
    /\ err' = [f \in Faces |-> NoErr]
    /\ UNCHANGED <<threads, rgb_img, sizes, files, probe>>

\* lines 152-155 and 29: the outer join; a panic of a face task unwinds main, a
\* failure is returned through both question marks, and Ok goes on to the next size
Return ==
    /\ mainPc = "faces"
    /\ AllFacesJoined
    /\ IF \E f \in Faces : pc[f] = "panic"
       THEN /\ mainPc' = "panicked"
            /\ ret' = ret
       ELSE IF FailedFaces # {}
       THEN /\ mainPc' = "failed"
            /\ \E f \in FailedFaces : ret' = Append(ret, ErrRet(err[f]))
       ELSE /\ mainPc' = "loop"
            /\ ret' = Append(ret, OkRet)
    /\ UNCHANGED <<threads, rgb_img, sizes, idx, size, dirs, files, pc, chunk_len, chunk_st,
                   face_buffer, writes, err, probe>>

\* lines 32-33: every size is done
MainDone ==
    /\ mainPc = "loop"
    /\ idx = Len(sizes)
    /\ mainPc' = "done"
    /\ UNCHANGED <<threads, rgb_img, sizes, idx, size, dirs, files, pc, chunk_len, chunk_st,
                   face_buffer, writes, err, ret, probe>>

----------------------------------------------------------------------------
(* Spec: main over a list of sizes, six face tasks per size *)

\* main's list doubles from its first size
SizesFrom(b) == [i \in 1..NumSizes |-> b * (2 ^ (i - 1))]

\* one source of the table and one with no columns
BatchImages ==
    {[width |-> 4, height |-> 2, pat |-> "ramp"],
     [width |-> 0, height |-> 2, pat |-> "ramp"]}

Init ==
    /\ threads \in 1..MaxThreads
    /\ rgb_img \in BatchImages
    /\ sizes \in {SizesFrom(b) : b \in 0..MaxBase}
    /\ idx = 0
    /\ mainPc = "loop"
    /\ size = 0
    /\ dirs = {}
    /\ files = <<>>
    /\ pc = [f \in Faces |-> "wait"]
    /\ chunk_len = 0
    /\ chunk_st = [f \in Faces |-> <<>>]
    /\ face_buffer = [f \in Faces |-> <<>>]
    /\ writes = [f \in Faces |-> <<>>]
    /\ err = [f \in Faces |-> NoErr]
    /\ ret = <<>>
    /\ probe = NoProbe

Next ==
    \/ MainCall
    \/ \E f \in Faces : StartFace(f)
    \/ \E f \in Faces : \E c \in DOMAIN chunk_st[f] : RunChunk(f, c)
    \/ \E f \in Faces : \E c \in DOMAIN chunk_st[f] : ChunkPanic(f, c)
    \/ \E f \in Faces : FacePanic(f)
    \/ \E f \in Faces : CreateFile(f)
    \/ \E f \in Faces : Encode(f)
    \/ Return
    \/ MainDone

Spec == Init /\ [][Next]_vars

----------------------------------------------------------------------------
(* SpecFace: one face task, from the spawn of its chunk tasks to its file, *)
(* for the chunk length of the code and for every other chunk length       *)

ChunkLens(s) == {ChunkLen(s)} \cup (IF s <= MaxTuneSize THEN 1..(s * s) ELSE {})

InitFace ==
    /\ threads = MaxThreads
    /\ rgb_img \in Sources
    /\ \E s \in FaceSizes :
         /\ sizes = <<s>>
         /\ size = s
         /\ dirs = {s}
         /\ chunk_len \in ChunkLens(s)
         /\ \E f \in Faces :
              /\ pc = [g \in Faces |-> IF g = f THEN "render" ELSE "wait"]
              /\ chunk_st = [g \in Faces |->
                    IF g = f THEN [c \in 1..NumChunks(s * s, chunk_len) |-> "run"]
                    ELSE <<>>]
              /\ face_buffer = [g \in Faces |->
                    IF g = f THEN [k \in 1..(s * s) |-> Blank] ELSE <<>>]
              /\ writes = [g \in Faces |->
                    IF g = f THEN [k \in 1..(s * s) |-> 0] ELSE <<>>]
    /\ idx = 1
    /\ mainPc = "faces"
    /\ files = <<>>
    /\ err = [f \in Faces |-> NoErr]
    /\ ret = <<>>
    /\ probe = NoProbe

NextFace ==
    \/ \E f \in Faces : \E c \in DOMAIN chunk_st[f] : RunChunk(f, c)
    \/ \E f \in Faces : CreateFile(f)
    \/ \E f \in Faces : Encode(f)

SpecFace == InitFace /\ [][NextFace]_vars

----------------------------------------------------------------------------
(* The state before main has started a conversion *)

IdleRun ==
    /\ sizes = <<>>
    /\ idx = 0
    /\ mainPc = "loop"
    /\ size = 0
    /\ dirs = {}
    /\ files = <<>>
    /\ pc = [f \in Faces |-> "wait"]
    /\ chunk_len = 0
    /\ chunk_st = [f \in Faces |-> <<>>]
    /\ face_buffer = [f \in Faces |-> <<>>]
    /\ writes = [f \in Faces |-> <<>>]
    /\ err = [f \in Faces |-> NoErr]
    /\ ret = <<>>

----------------------------------------------------------------------------
(* SpecProj: cube_to_spherical and the sampler applied to one pixel *)

\* the smallest face whose pixel step is no wider than a pixel of the widest
\* source tried
MinProbeSize == MaxDim

ProbeImages ==
    {[width |-> w, height |-> h, pat |-> p] :
        w \in 1..MaxDim, h \in 1..MaxDim, p \in {"edge"}}

InitProj ==
    /\ threads = MaxThreads
    /\ rgb_img \in ProbeImages
    /\ IdleRun
    /\ \E s \in MinProbeSize..MaxProbeSize, f \in Faces :
         \E x \in 0..(s - 1), y \in 0..(s - 1) :
            probe = [stage |-> "input", face |-> f, x |-> x, y |-> y, s |-> s]

Project ==
    /\ probe.stage = "input"
    /\ probe' = [stage |-> "projected", face |-> probe.face, x |-> probe.x,
                 y |-> probe.y, s |-> probe.s,
                 uv |-> cube_to_spherical(probe.x, probe.y, probe.s, probe.face)]
    /\ UNCHANGED runVars

Lookup ==
    /\ probe.stage = "projected"
    /\ probe' = [stage |-> "sampled", face |-> probe.face, x |-> probe.x,
                 y |-> probe.y, s |-> probe.s, uv |-> probe.uv,
                 at |-> SampleAt(rgb_img, probe.uv),
                 px |-> Sample(rgb_img, probe.uv)]
    /\ UNCHANGED runVars

NextProj == Project \/ Lookup

SpecProj == InitProj /\ [][NextProj]_vars

----------------------------------------------------------------------------
(* Claims about cube_to_spherical and the sampler, checked under SpecProj *)

Projected == probe.stage \in {"projected", "sampled"}

\* Pixel i of one of the four boundary lines of a face of size s
EdgePixel(e, i, s) ==
    CASE e = "x_first" -> <<0, i>>
      [] e = "x_last" -> <<s - 1, i>>
      [] e = "y_first" -> <<i, 0>>
      [] OTHER -> <<i, s - 1>>

Edges == {"x_first", "x_last", "y_first", "y_last"}

\* Two outputs lie within one source pixel of each other; u is compared around
\* the circle, since u = 0 and u = 1 are the same longitude
WithinSourcePixel(p, q, img) ==
    LET du == Abs(p[1] - q[1])
    IN /\ Min(du, ONE - du) * img.width < ONE
       /\ Abs(p[2] - q[2]) * img.height < ONE

\* Faces a and b meet along some pair of their boundary lines, pixel by pixel,
\* in one of the two orientations
SeamContinuous(a, b, s, img) ==
    \E ea \in Edges, eb \in Edges, flip \in BOOLEAN :
        \A i \in 0..(s - 1) :
            LET pa == EdgePixel(ea, i, s)
                pb == EdgePixel(eb, IF flip THEN s - 1 - i ELSE i, s)
            IN WithinSourcePixel(cube_to_spherical(pa[1], pa[2], s, a),
                                 cube_to_spherical(pb[1], pb[2], s, b), img)

SeamPairs == {<<"right", "front">>, <<"front", "left">>, <<"up", "front">>}

\* C6: for each pair of faces sharing a cube edge, the projector's outputs for
\* corresponding boundary pixels differ by less than one source pixel.
C6_SeamContinuity ==
    Projected =>
        \A p \in SeamPairs :
            p[1] = probe.face => SeamContinuous(p[1], p[2], probe.s, rgb_img)

\* C7: for every face and every pixel of the grid, the projector returns
\* (u, v) with 0 <= u < 1 and 0 <= v < 1.
C7_UnitRange ==
    Projected =>
        /\ 0 <= probe.uv[1] /\ probe.uv[1] < ONE
        /\ 0 <= probe.uv[2] /\ probe.uv[2] < ONE

\* C8: the sampler's four lookups are x0 = floor(u*W mod W), y0 = floor(v*H mod H),
\* x1 = (x0+1) mod W, y1 = (y0+1) mod H, all inside the source, and the
\* neighbour of the last column (row) is column (row) 0.
C8_ToroidalLookups ==
    probe.stage = "sampled" =>
        LET w == rgb_img.width
            h == rgb_img.height
            at == probe.at
        IN /\ at.x0 = ((probe.uv[1] * w) % (w * ONE)) \div ONE
           /\ at.y0 = ((probe.uv[2] * h) % (h * ONE)) \div ONE
           /\ at.x1 = (at.x0 + 1) % w
           /\ at.y1 = (at.y0 + 1) % h
           /\ {at.x0, at.x1} \subseteq 0..(w - 1)
           /\ {at.y0, at.y1} \subseteq 0..(h - 1)
           /\ (at.x0 = w - 1 => at.x1 = 0)
           /\ (at.y0 = h - 1 => at.y1 = 0)

\* a lookup in the last column of a source at least two pixels wide, whose
\* horizontal neighbour is column 0
C8_Witness ==
    /\ probe.stage = "sampled"
    /\ rgb_img.width >= 2
    /\ probe.at.x0 = rgb_img.width - 1
    /\ probe.at.x1 = 0
    /\ probe.at.fx > 0

----------------------------------------------------------------------------
(* Claims about one face task, checked under SpecFace *)

Rendering(f) == pc[f] \in {"render", "encode"}

\* C1: the chunks of one face partition its pixel grid: every cell lies in
\* exactly one chunk, no cell is ever written twice, a cell is written once its
\* chunk has run, and every cell has been written exactly once when all chunks
\* have completed.
C1_ChunkPartition ==
    \A f \in Faces :
        Rendering(f) =>
            LET n == size * size
                chunks == DOMAIN chunk_st[f]
                first(c) == (c - 1) * chunk_len + 1
                last(c) == IF c * chunk_len < n THEN c * chunk_len ELSE n
            IN /\ DOMAIN writes[f] = 1..n
               /\ \A k \in 1..n :
                    /\ Cardinality({c \in chunks : first(c) <= k /\ k <= last(c)}) = 1
                    /\ writes[f][k] <= 1
                    /\ writes[f][k] = 1 <=>
                         \E c \in chunks :
                            chunk_st[f][c] = "done" /\ first(c) <= k /\ k <= last(c)
               /\ (\A c \in chunks : chunk_st[f][c] = "done") =>
                     \A k \in 1..n : writes[f][k] = 1
               /\ pc[f] = "encode" => \A k \in 1..n : writes[f][k] = 1

\* a face whose size is not a multiple of 16, split by the code into a full
\* chunk and a shorter last one, with both chunks completed
C1_Witness ==
    \E f \in Faces :
        /\ pc[f] = "encode"
        /\ size = ChunkRows + 1
        /\ chunk_len = ChunkRows * size
        /\ Len(chunk_st[f]) = 2
        /\ \A k \in 1..(size * size) : writes[f][k] = 1

\* C2: the content of a completed face buffer is the same for every chunk
\* length and every order of the chunk tasks: cell k holds the colour of pixel
\* ((k-1) mod S, (k-1) div S) of that face.
C2_ContentIndependent ==
    \A f \in Faces :
        pc[f] = "encode" =>
            face_buffer[f] =
                [k \in 1..(size * size) |->
                    RenderPixel(rgb_img, (k - 1) % size, (k - 1) \div size, size, f)]

\* a completed buffer built from two chunks of unequal length, neither the
\* chunk length of the code, on a source that is not uniform
C2_Witness ==
    \E f \in Faces :
        /\ pc[f] = "encode"
        /\ size = 2
        /\ chunk_len = 3
        /\ rgb_img.pat = "ramp"
        /\ \E j, k \in 1..(size * size) : face_buffer[f][j] # face_buffer[f][k]

\* C3: a face is handed to the encoder only after every chunk task of the face
\* has completed and every cell has been written; while a chunk runs or a cell
\* is unwritten the face has no output file.
C3_EncodeAfterJoin ==
    \A f \in Faces :
        /\ pc[f] = "encode" =>
              /\ \A c \in DOMAIN chunk_st[f] : chunk_st[f][c] = "done"
              /\ DOMAIN writes[f] = 1..(size * size)
              /\ \A k \in DOMAIN writes[f] : writes[f][k] >= 1
        /\ (pc[f] = "render" /\ \E c \in DOMAIN chunk_st[f] : chunk_st[f][c] = "run") =>
              FileKey(size, f) \notin DOMAIN files

\* a face being encoded whose buffer was filled by more than one chunk task
C3_Witness ==
    \E f \in Faces :
        /\ pc[f] = "encode"
        /\ Len(chunk_st[f]) >= 2
        /\ files[FileKey(size, f)] = "partial"

----------------------------------------------------------------------------
(* Claims about main and the outer join, checked under Spec *)

Complete(s, f) == FileKey(s, f) \in DOMAIN files /\ files[FileKey(s, f)] = "complete"

\* C4: if the write or encode step of a face fails, the call returns that
\* failure, never Ok; the files of faces that completed stay complete; main
\* starts no later size, and the files of earlier sizes stay complete.
C4_FailureStops ==
    /\ (mainPc # "faces" /\ \E f \in Faces : pc[f] = "err") =>
          /\ mainPc = "failed"
          /\ Len(ret) = idx
          /\ ret[idx].kind = "Err"
          /\ ret[idx].err \in {err[f] : f \in {g \in Faces : pc[g] = "err"}}
    /\ \A n \in 1..Len(ret) :
          ret[n].kind = "Err" => n = Len(ret) /\ idx = n /\ mainPc = "failed"
    /\ mainPc = "failed" =>
          /\ \A f \in Faces : pc[f] = "ok" => Complete(size, f)
          /\ \A j \in 1..(idx - 1) : \A f \in Faces : Complete(sizes[j], f)
          /\ \A k \in DOMAIN files : \E j \in 1..idx : k[1] = sizes[j]
          /\ dirs \subseteq {sizes[j] : j \in 1..idx}

\* the second size failed in one face after another face of it had completed
C4_Witness ==
    /\ mainPc = "failed"
    /\ idx = 2
    /\ idx < Len(sizes)
    /\ \E f, g \in Faces : pc[f] = "err" /\ pc[g] = "ok" /\ Complete(size, g)

\* C5: a call with face size 0 or with a source of width or height 0 fails
\* before any work: no output directory, no face or chunk task, no output file.
C5_RejectsBeforeWork ==
    (idx >= 1 /\ (size = 0 \/ ZeroSource)) =>
        /\ dirs = {}
        /\ \A f \in Faces : pc[f] = "wait"
        /\ files = <<>>

\* C9: when a size fails because a face failed, the returned error names the
\* face that failed.
C9_ErrorNamesFace ==
    \A n \in 1..Len(ret) :
        (ret[n].kind = "Err" /\ \E f \in Faces : pc[f] = "err") =>
            \E f \in Faces : pc[f] = "err" /\ f \in ret[n].err.names

\* C10: a call returns Ok only after all six faces are rendered and written;
\* while faces are in progress the call has not returned and they belong to
\* the size main is at; nothing of a later size exists.
C10_OuterJoin ==
    /\ \A n \in 1..Len(ret) :
          ret[n].kind = "Ok" => \A f \in Faces : Complete(sizes[n], f)
    /\ mainPc = "faces" => Len(ret) = idx - 1 /\ size = sizes[idx]
    /\ (\E f \in Faces : pc[f] \in {"render", "encode"}) => mainPc = "faces"
    /\ \A k \in DOMAIN files : \E j \in 1..idx : k[1] = sizes[j]

\* the first size has returned Ok and a face of the second size is being
\* rendered while another one of it is already written
C10_Witness ==
    /\ Len(ret) = 1
    /\ ret[1].kind = "Ok"
    /\ idx = 2
    /\ \E f, g \in Faces : pc[f] = "render" /\ pc[g] = "ok"

====
